---- MODULE Spec2Model ----
(***************************************************************************)
(* A model of SongRec's entry point (src/main.rs): the clap argument       *)
(* surface declared by base_app!/gui_app!, the dispatch of `main` on the   *)
(* subcommand name, and the chain of fallible calls each arm performs.     *)
(* The Capture/Processor/Recognizer pipeline that cli_main starts lives in *)
(* modules that main.rs only declares (mod core { ... }); it is modelled   *)
(* from the written specification, sections 4.8 and 5.                     *)
(***************************************************************************)
EXTENDS Integers, Sequences, FiniteSets, TLC

(* ------------------------------------------------------------------ *)
(* Bounds of the model                                                *)
(* ------------------------------------------------------------------ *)
NumDevices == 1
NumFiles == 1
NumUris == 1
MaxChunks == 5

VARIABLES
    gui,        \* build configuration: cfg(feature = "gui")
    args,       \* the command line handed to the process
    pc,         \* position of main
    arm,        \* the match arm main selected
    held,       \* the value the current expression chain holds
    calls,      \* log of the calls main made to its collaborators
    stdout,     \* lines written by println!
    result,     \* how the process ended
    \* --- the pipeline started by cli_main ---
    params,                     \* the CLIParameters of the run
    source,                     \* the sample source: "open" or "closed"
    produced,                   \* chunks read from the source so far
    samples_to_processor,       \* Capture -> Processor channel
    samples_closed,             \* ... and whether its sender is gone
    signatures_to_recognizer,   \* Processor -> Recognizer channel
    signatures_closed,          \* ... and whether its sender is gone
    capture,                    \* Capture worker: "running" or "exited"
    processor,                  \* Processor worker position
    fed,                        \* chunks the Processor fed to its accumulator
    pending,                    \* the signature the Processor is about to push
    last_pushed,                \* id of the newest signature pushed
    finals,                     \* final signatures flushed by finalize
    recognizer,                 \* Recognizer worker position
    cur,                        \* the signature the Recognizer holds
    discarded,                  \* signatures the Recognizer skipped as stale
    req,                        \* the HTTP request in flight
    n_requests,                 \* HTTP requests issued so far
    sleep_left,                 \* seconds of suppression left
    backoff,                    \* the next no-match/failure delay
    since_match,                \* seconds since the last match (saturating)
    sink                        \* the event sink: the message last emitted

mainVars == <<gui, args, pc, arm, held, calls, stdout, result>>
pipeVars == <<params, source, produced, samples_to_processor, samples_closed,
              signatures_to_recognizer, signatures_closed, capture, processor,
              fed, pending, last_pushed, finals, recognizer, cur, discarded,
              req, n_requests, sleep_left, backoff, since_match, sink>>
vars == <<mainVars, pipeVars>>

(* ------------------------------------------------------------------ *)
(* Option values                                                      *)
(* ------------------------------------------------------------------ *)
None == <<>>
Some(x) == <<x>>
IsSome(o) == o # None
Option(S) == {None} \cup {Some(x) : x \in S}

Devices == 1..NumDevices
Files == 1..NumFiles
Uris == 1..NumUris

(* ------------------------------------------------------------------ *)
(* The argument surface: base_app!, gui_app!, app!                    *)
(* ------------------------------------------------------------------ *)
BaseSubcommands ==
    { "listen", "recognize", "audio-file-to-recognized-song",
      "microphone-to-recognized-song", "audio-file-to-fingerprint",
      "fingerprint-to-recognized-song" }

GuiSubcommands == { "gui", "gui-norecording" }

AllSubcommandNames == BaseSubcommands \cup GuiSubcommands

\* Mutation: the gui subcommands registered whatever the build.
SubcommandsNoGuiGate(g) == AllSubcommandNames

\* app!() is gui_app!() under the gui feature and base_app!() otherwise.
Subcommands(g) == IF g THEN BaseSubcommands \cup GuiSubcommands ELSE BaseSubcommands

\* The arguments each subcommand declares with .arg(Arg::with_name(..)).
DeclaredArgs(sub) ==
    CASE sub = Some("listen") -> {"audio-device", "json", "csv", "disable-mpris"}
      [] sub = Some("recognize") -> {"audio-device", "json", "csv", "input_file"}
      [] sub = Some("audio-file-to-recognized-song") -> {"input_file"}
      [] sub = Some("microphone-to-recognized-song") -> {"audio-device"}
      [] sub = Some("audio-file-to-fingerprint") -> {"input_file"}
      [] sub = Some("fingerprint-to-recognized-song") -> {"fingerprint"}
      [] sub = Some("gui") -> {"input_file", "disable-mpris"}
      [] sub = Some("gui-norecording") -> {"input_file", "disable-mpris"}
      [] OTHER -> {}

\* .required(true)
RequiredArgs(sub) ==
    CASE sub = Some("audio-file-to-recognized-song") -> {"input_file"}
      [] sub = Some("audio-file-to-fingerprint") -> {"input_file"}
      [] sub = Some("fingerprint-to-recognized-song") -> {"fingerprint"}
      [] OTHER -> {}

\* Mutation: no .conflicts_with(..) declared.
NoConflicts(sub, name) == {}

\* .conflicts_with("csv") on "json": clap adds the names to the blacklist of
\* the subcommand when the declaring argument is matched.
ConflictsWith(sub, name) ==
    IF sub \in {Some("listen"), Some("recognize")} /\ name = "json"
    THEN {"csv"} ELSE {}

\* clap adds a `help` subcommand of its own to an App that has subcommands.
BuiltinSubcommands == { "help" }

Invocations ==
    [ sub : Option(AllSubcommandNames \cup BuiltinSubcommands),
      dev : Option(Devices),
      json : BOOLEAN,
      csv : BOOLEAN,
      disable_mpris : BOOLEAN,
      input_file : Option(Files),
      fingerprint : Option(Uris) ]

\* The argument names present on the command line.
Given(a) ==
    (IF IsSome(a.dev) THEN {"audio-device"} ELSE {})
    \cup (IF a.json THEN {"json"} ELSE {})
    \cup (IF a.csv THEN {"csv"} ELSE {})
    \cup (IF a.disable_mpris THEN {"disable-mpris"} ELSE {})
    \cup (IF IsSome(a.input_file) THEN {"input_file"} ELSE {})
    \cup (IF IsSome(a.fingerprint) THEN {"fingerprint"} ELSE {})

\* get_matches(): whether clap accepts the command line for build g.
\* A rejected command line makes clap print the usage error and exit.
Accepts(g, a) ==
    /\ a.sub \in Option(Subcommands(g))
    /\ Given(a) \subseteq DeclaredArgs(a.sub)
    /\ RequiredArgs(a.sub) \subseteq Given(a)
    /\ \A x \in Given(a) : ConflictsWith(a.sub, x) \cap Given(a) = {}

\* `help` alone: clap prints the help text and exits with status 0; main
\* never sees it.
HelpRequested(a) == a.sub = Some("help") /\ Given(a) = {}

\* ArgMatches accessors
subcommand_name(a) == a.sub
is_present(a, name) == name \in Given(a)

(* ------------------------------------------------------------------ *)
(* main: the match on args.subcommand_name()                          *)
(* ------------------------------------------------------------------ *)
\* The arms of the match in source order. cfg is the #[cfg(..)] guard of the
\* arm; pats is the set of subcommand_name() values its pattern covers.
ArmTable ==
    << [id |-> "audio-file-to-recognized-song", cfg |-> "any",
        pats |-> {Some("audio-file-to-recognized-song")}],
       [id |-> "audio-file-to-fingerprint", cfg |-> "any",
        pats |-> {Some("audio-file-to-fingerprint")}],
       [id |-> "fingerprint-to-recognized-song", cfg |-> "any",
        pats |-> {Some("fingerprint-to-recognized-song")}],
       [id |-> "listen", cfg |-> "any", pats |-> {Some("listen")}],
       [id |-> "recognize", cfg |-> "any", pats |-> {Some("recognize")}],
       [id |-> "microphone-to-recognized-song", cfg |-> "any",
        pats |-> {Some("microphone-to-recognized-song")}],
       [id |-> "gui-norecording", cfg |-> "gui", pats |-> {Some("gui-norecording")}],
       [id |-> "gui|None", cfg |-> "gui", pats |-> {Some("gui"), None}],
       [id |-> "None", cfg |-> "nogui", pats |-> {None}],
       [id |-> "_", cfg |-> "any",
        pats |-> Option(AllSubcommandNames \cup BuiltinSubcommands)] >>

ArmCompiled(g, i) ==
    \/ ArmTable[i].cfg = "any"
    \/ ArmTable[i].cfg = "gui" /\ g
    \/ ArmTable[i].cfg = "nogui" /\ ~g

ArmMatches(g, i, name) == ArmCompiled(g, i) /\ name \in ArmTable[i].pats

\* The first compiled arm whose pattern covers the name.
SelectArm(g, name) ==
    LET i == CHOOSE k \in 1..Len(ArmTable) :
                 /\ ArmMatches(g, k, name)
                 /\ \A j \in 1..(k - 1) : ~ArmMatches(g, j, name)
    IN ArmTable[i].id

CliArms == {"listen", "recognize", "microphone-to-recognized-song", "None"}
GuiArms == {"gui-norecording", "gui|None"}

\* if enable_json { JSON } else if enable_csv { CSV } else { SongName }
OutputTypeOf(enable_json, enable_csv) ==
    IF enable_json THEN "JSON" ELSE IF enable_csv THEN "CSV" ELSE "SongName"

\* enable_mpris of the CLIParameters literal of each arm.
EnableMprisOf(armId, a) ==
    CASE armId = "listen" -> ~is_present(a, "disable-mpris")
      [] armId \in {"recognize", "microphone-to-recognized-song"} -> FALSE
      [] OTHER -> TRUE

\* Mutation: only `recognize` asks for a single recognition.
RecognizeOnceOnlyForRecognize(armId) == armId = "recognize"

\* recognize_once of the CLIParameters literal of each arm.
RecognizeOnceOf(armId) ==
    CASE armId = "listen" -> FALSE
      [] armId = "recognize" -> TRUE
      [] armId = "microphone-to-recognized-song" -> TRUE
      [] OTHER -> FALSE

\* audio_device: value_of("audio-device").map(str::to_string), None in the
\* arm of the bare command.
AudioDeviceOf(armId, a) ==
    IF armId \in {"listen", "recognize", "microphone-to-recognized-song"}
    THEN a.dev ELSE None

\* Mutation: the file argument of `recognize` is not passed on.
InputFileAlwaysNone(armId, a) == None

\* input_file: value_of("input_file") in `recognize`, None elsewhere.
InputFileOf(armId, a) == IF armId = "recognize" THEN a.input_file ELSE None

\* output_type of the CLIParameters literal of each arm.
OutputTypeFor(armId, a) ==
    CASE armId \in {"listen", "recognize"} ->
           OutputTypeOf(is_present(a, "json"), is_present(a, "csv"))
      [] armId = "microphone-to-recognized-song" -> "JSON"
      [] OTHER -> "SongName"

\* The CLIParameters literal each arm builds.
CLIParametersOf(armId, a) ==
    [ enable_mpris |-> EnableMprisOf(armId, a),
      recognize_once |-> RecognizeOnceOf(armId),
      audio_device |-> AudioDeviceOf(armId, a),
      input_file |-> InputFileOf(armId, a),
      output_type |-> OutputTypeFor(armId, a) ]

\* The arguments each gui arm hands to gui_main.
GuiArgsOf(armId, a) ==
    IF armId = "gui-norecording"
    THEN [ recording |-> FALSE, input_file |-> a.input_file,
           enable_mpris |-> ~is_present(a, "disable-mpris") ]
    ELSE IF a.sub = Some("gui")
    THEN [ recording |-> TRUE, input_file |-> a.input_file,
           enable_mpris |-> ~is_present(a, "disable-mpris") ]
    ELSE [ recording |-> TRUE, input_file |-> None, enable_mpris |-> TRUE ]

\* Where each arm starts.
FirstStep(armId) ==
    CASE armId \in {"audio-file-to-recognized-song", "audio-file-to-fingerprint"} -> "make_signature"
      [] armId = "fingerprint-to-recognized-song" -> "decode_from_uri"
      [] armId \in CliArms -> "cli_main"
      [] armId \in GuiArms -> "gui_main"
      [] OTHER -> "unreachable"

(* ------------------------------------------------------------------ *)
(* Values flowing through an arm: a value is its origin and the        *)
(* functions applied to it so far.                                     *)
(* ------------------------------------------------------------------ *)
Term(src, id) == [src |-> src, id |-> id, ops |-> <<>>]
Apply(fn, t) == [t EXCEPT !.ops = Append(@, fn)]

\* The errors each collaborator may return.
ErrorsOf(fn) ==
    CASE fn = "make_signature_from_file" -> {"UnsupportedFormat", "InputTooShort"}
      [] fn = "decode_from_uri" -> {"CorruptSignature"}
      [] fn = "recognize_song_from_signature" -> {"NetworkTimeout", "MalformedResponse"}
      [] fn = "to_string_pretty" -> {"Serialize"}
      [] fn = "encode_to_uri" -> {"Encode"}
      [] fn = "cli_main" -> {"CaptureDeviceUnavailable"}
      [] fn = "gui_main" -> {"GuiInit"}
      [] OTHER -> {}

Outcomes(fn) == Option(ErrorsOf(fn))

Running == [tag |-> "Running", err |-> None]
ExitOk == [tag |-> "Ok", err |-> None]
ExitErr(fn, kind) == [tag |-> "Err", err |-> Some([fn |-> fn, kind |-> kind])]
ClapExit == [tag |-> "ClapExit", err |-> None]
HelpExit == [tag |-> "ClapHelp", err |-> None]
Panicked(what) == [tag |-> "Panic", err |-> Some([fn |-> what, kind |-> "panic"])]

Call(fn, arg, ret) == [fn |-> fn, arg |-> arg, ret |-> ret]

(* ------------------------------------------------------------------ *)
(* Pipeline constants and the state before any worker is spawned       *)
(* ------------------------------------------------------------------ *)
ChannelCapacity == 4
Cooldown == 8
BackoffStart == 3
BackoffCap == 15

Min(a, b) == IF a < b THEN a ELSE b
Max(a, b) == IF a < b THEN b ELSE a

\* The pipeline state as the workers are spawned: channels empty and open,
\* every worker at its first instruction, no match seen yet.
PipelineAtRest ==
    /\ source = "open"
    /\ produced = 0
    /\ samples_to_processor = <<>>
    /\ samples_closed = FALSE
    /\ signatures_to_recognizer = <<>>
    /\ signatures_closed = FALSE
    /\ capture = "running"
    /\ processor = "recv"
    /\ fed = 0
    /\ pending = None
    /\ last_pushed = 0
    /\ finals = 0
    /\ recognizer = "waiting"
    /\ cur = None
    /\ discarded = {}
    /\ req = None
    /\ n_requests = 0
    /\ sleep_left = 0
    /\ backoff = BackoffStart
    /\ since_match = Cooldown
    /\ sink = None

(* ------------------------------------------------------------------ *)
(* main, step by step                                                  *)
(* ------------------------------------------------------------------ *)
MainInit ==
    /\ gui \in BOOLEAN
    /\ args \in Invocations
    /\ pc = "start"
    /\ arm = None
    /\ held = None
    /\ calls = <<>>
    /\ stdout = <<>>
    /\ result = Running
    /\ params = None
    /\ PipelineAtRest

\* Mutation: the result is not checked (no `?`): main goes on after an Err.
TryIgnoringErr(fn, arg, ret, value, next) ==
    /\ calls' = Append(calls, Call(fn, arg, ret))
    /\ held' = value
    /\ pc' = next
    /\ result' = result

\* `expr?`: an Err returns from main at once; an Ok value goes on to `next`.
Try(fn, arg, ret, value, next) ==
    /\ calls' = Append(calls, Call(fn, arg, ret))
    /\ IF ret = None
       THEN /\ held' = value
            /\ pc' = next
            /\ result' = result
       ELSE /\ held' = None
            /\ pc' = "done"
            /\ result' = ExitErr(fn, ret[1])

\* let args = app!().get_matches();
GetMatches ==
    /\ pc = "start"
    /\ IF Accepts(gui, args)
       THEN pc' = "match" /\ result' = result
       ELSE pc' = "done" /\ result' = (IF HelpRequested(args) THEN HelpExit ELSE ClapExit)
    /\ UNCHANGED <<gui, args, arm, held, calls, stdout>>
    /\ UNCHANGED pipeVars

\* match args.subcommand_name() { ... _ => unreachable!() }
Match ==
    /\ pc = "match"
    /\ LET id == SelectArm(gui, subcommand_name(args)) IN
         /\ arm' = Some(id)
         /\ IF FirstStep(id) = "unreachable"
            THEN pc' = "done" /\ result' = Panicked("unreachable!")
            ELSE pc' = FirstStep(id) /\ result' = result
         /\ held' = CASE FirstStep(id) = "make_signature" -> Some(Term("input_file", args.input_file[1]))
                      [] FirstStep(id) = "decode_from_uri" -> Some(Term("fingerprint", args.fingerprint[1]))
                      [] OTHER -> None
    /\ UNCHANGED <<gui, args, calls, stdout>>
    /\ UNCHANGED pipeVars

\* Mutation: every audio-file arm goes on to the recognition request.
AfterSignatureAlwaysRecognize(armId) == "recognize"

\* What follows the generated signature in the two audio-file arms.
AfterSignature(armId) ==
    IF armId = "audio-file-to-fingerprint" THEN "encode_to_uri" ELSE "recognize"

\* SignatureGenerator::make_signature_from_file(input_file_string)?
MakeSignatureFromFile ==
    /\ pc = "make_signature"
    /\ \E ret \in Outcomes("make_signature_from_file") :
         Try("make_signature_from_file", held[1], ret,
             Some(Apply("make_signature_from_file", held[1])), AfterSignature(arm[1]))
    /\ UNCHANGED <<gui, args, arm, stdout>>
    /\ UNCHANGED pipeVars

\* Mutation: a signature that failed to decode is sent all the same.
DecodeFromUriLenient ==
    /\ pc = "decode_from_uri"
    /\ \E ret \in Outcomes("decode_from_uri") :
         /\ calls' = Append(calls, Call("decode_from_uri", held[1], ret))
         /\ held' = Some(Apply("decode_from_uri", held[1]))
         /\ pc' = "recognize"
         /\ result' = result
    /\ UNCHANGED <<gui, args, arm, stdout>>
    /\ UNCHANGED pipeVars

\* DecodedSignature::decode_from_uri(fingerprint_string)?
DecodeFromUri ==
    /\ pc = "decode_from_uri"
    /\ \E ret \in Outcomes("decode_from_uri") :
         Try("decode_from_uri", held[1], ret,
             Some(Apply("decode_from_uri", held[1])), "recognize")
    /\ UNCHANGED <<gui, args, arm, stdout>>
    /\ UNCHANGED pipeVars

\* recognize_song_from_signature(&signature)?
RecognizeSongFromSignature ==
    /\ pc = "recognize"
    /\ \E ret \in Outcomes("recognize_song_from_signature") :
         Try("recognize_song_from_signature", held[1], ret,
             Some(Apply("recognize_song_from_signature", held[1])), "to_string_pretty")
    /\ UNCHANGED <<gui, args, arm, stdout>>
    /\ UNCHANGED pipeVars

\* serde_json::to_string_pretty(&json)?
ToStringPretty ==
    /\ pc = "to_string_pretty"
    /\ \E ret \in Outcomes("to_string_pretty") :
         Try("to_string_pretty", held[1], ret,
             Some(Apply("to_string_pretty", held[1])), "println")
    /\ UNCHANGED <<gui, args, arm, stdout>>
    /\ UNCHANGED pipeVars

\* signature.encode_to_uri()?
EncodeToUri ==
    /\ pc = "encode_to_uri"
    /\ \E ret \in Outcomes("encode_to_uri") :
         Try("encode_to_uri", held[1], ret,
             Some(Apply("encode_to_uri", held[1])), "println")
    /\ UNCHANGED <<gui, args, arm, stdout>>
    /\ UNCHANGED pipeVars

\* println!("{}", value): writes the line, or panics when stdout cannot be
\* written to.
Println ==
    /\ pc = "println"
    /\ \E written \in BOOLEAN :
         IF written
         THEN /\ stdout' = Append(stdout, held[1])
              /\ pc' = "return_ok"
              /\ result' = result
         ELSE /\ stdout' = stdout
              /\ pc' = "done"
              /\ result' = Panicked("println!")
    /\ held' = None
    /\ UNCHANGED <<gui, args, arm, calls>>
    /\ UNCHANGED pipeVars

\* cli_main(CLIParameters { .. })?
CliMain ==
    /\ pc = "cli_main"
    /\ \E ret \in Outcomes("cli_main") :
         Try("cli_main", CLIParametersOf(arm[1], args), ret, None, "return_ok")
    /\ UNCHANGED <<gui, args, arm, stdout>>
    /\ UNCHANGED pipeVars

\* gui_main(recording, input_file, enable_mpris)?
GuiMain ==
    /\ pc = "gui_main"
    /\ \E ret \in Outcomes("gui_main") :
         Try("gui_main", GuiArgsOf(arm[1], args), ret, None, "return_ok")
    /\ UNCHANGED <<gui, args, arm, stdout>>
    /\ UNCHANGED pipeVars

\* Ok(())
ReturnOk ==
    /\ pc = "return_ok"
    /\ pc' = "done"
    /\ result' = ExitOk
    /\ UNCHANGED <<gui, args, arm, held, calls, stdout>>
    /\ UNCHANGED pipeVars

MainNext ==
    \/ GetMatches
    \/ Match
    \/ MakeSignatureFromFile
    \/ DecodeFromUri
    \/ RecognizeSongFromSignature
    \/ ToStringPretty
    \/ EncodeToUri
    \/ Println
    \/ CliMain
    \/ GuiMain
    \/ ReturnOk

Next == MainNext

Spec == MainInit /\ [][Next]_vars

(* ------------------------------------------------------------------ *)
(* The pipeline cli_main runs: Capture -> Processor -> Recognizer      *)
(* (specification sections 4.7, 4.8 and 5)                             *)
(* ------------------------------------------------------------------ *)
\* The command lines on which main reaches cli_main.
StartsCliMain(g, a) ==
    Accepts(g, a) /\ FirstStep(SelectArm(g, subcommand_name(a))) = "cli_main"

\* The workers read recognize_once only: the pipeline runs are started from
\* the command lines that reach cli_main with no option other than the file.
PlainInvocations ==
    { a \in Invocations :
        a.dev = None /\ ~a.json /\ ~a.csv /\ ~a.disable_mpris /\ a.fingerprint = None }

\* Start: main is inside cli_main(parameters) and the three workers are spawned.
PipelineInit ==
    /\ gui \in BOOLEAN
    /\ args \in PlainInvocations
    /\ StartsCliMain(gui, args)
    /\ pc = "cli_main"
    /\ arm = Some(SelectArm(gui, subcommand_name(args)))
    /\ held = None
    /\ calls = <<>>
    /\ stdout = <<>>
    /\ result = Running
    /\ params = Some(CLIParametersOf(SelectArm(gui, subcommand_name(args)), args))
    /\ PipelineAtRest

RecognizeOnce == params[1].recognize_once

captureVars == <<source, produced, samples_to_processor, samples_closed, capture>>
processorVars == <<fed, pending, last_pushed, finals, processor,
                   signatures_to_recognizer, signatures_closed>>
recognizerVars == <<recognizer, cur, discarded, req, n_requests, backoff>>
clockVars == <<sleep_left, since_match>>

\* The sample source ends (end of file, device closed, cancellation).
CloseSource ==
    /\ source = "open"
    /\ source' = "closed"
    /\ UNCHANGED <<mainVars, params, produced, samples_to_processor, samples_closed,
                   capture, processorVars, recognizerVars, clockVars, sink>>

\* Capture pushes a chunk; on overflow the oldest queued chunk is dropped.
PushDropOldest(q, x) ==
    IF Len(q) >= ChannelCapacity THEN Append(Tail(q), x) ELSE Append(q, x)

CaptureChunk ==
    /\ capture = "running"
    /\ source = "open"
    /\ produced < MaxChunks
    /\ produced' = produced + 1
    /\ samples_to_processor' = PushDropOldest(samples_to_processor, produced + 1)
    /\ UNCHANGED <<mainVars, params, source, samples_closed, capture,
                   processorVars, recognizerVars, clockVars, sink>>

\* Mutation: Capture exits and leaves its output channel open.
CaptureExitLeavingChannelOpen ==
    /\ capture = "running"
    /\ source = "closed"
    /\ capture' = "exited"
    /\ UNCHANGED <<mainVars, params, source, produced, samples_to_processor,
                   samples_closed, processorVars, recognizerVars, clockVars, sink>>

\* Capture exits when the source is closed, closing its output channel.
CaptureExit ==
    /\ capture = "running"
    /\ source = "closed"
    /\ capture' = "exited"
    /\ samples_closed' = TRUE
    /\ UNCHANGED <<mainVars, params, source, produced, samples_to_processor,
                   processorVars, recognizerVars, clockVars, sink>>

\* The Processor takes a chunk (about one second of audio), advances its FFT
\* passes and snapshots the rolling signature; signature k covers chunks up
\* to k.
ProcessChunk ==
    /\ processor = "recv"
    /\ samples_to_processor # <<>>
    /\ samples_to_processor' = Tail(samples_to_processor)
    /\ fed' = fed + 1
    /\ pending' = Some(fed + 1)
    /\ processor' = "push"
    /\ UNCHANGED <<mainVars, params, source, produced, samples_closed, capture,
                   last_pushed, finals, signatures_to_recognizer, signatures_closed,
                   recognizerVars, clockVars, sink>>

\* finalize() needs at least one 128-sample stride.
FinalizeFails(n) == n = 0

\* The samples channel is closed and drained: finalize. With nothing fed
\* finalize fails with InputTooShort and there is no signature to flush.
Finalize ==
    /\ processor = "recv"
    /\ samples_to_processor = <<>>
    /\ samples_closed
    /\ IF FinalizeFails(fed)
       THEN /\ processor' = "exited"
            /\ signatures_closed' = TRUE
            /\ pending' = None
            /\ sink' = Some("InputTooShort")
       ELSE /\ processor' = "flush"
            /\ signatures_closed' = signatures_closed
            /\ pending' = Some(fed + 1)
            /\ sink' = sink
    /\ UNCHANGED <<mainVars, params, captureVars, fed, last_pushed, finals,
                   signatures_to_recognizer, recognizerVars, clockVars>>

\* A bounded push: it waits for room while the Recognizer is alive; once the
\* Recognizer is gone the signature is dropped.
PushSignature ==
    /\ processor \in {"push", "flush"}
    /\ recognizer = "exited" \/ Len(signatures_to_recognizer) < ChannelCapacity
    /\ signatures_to_recognizer' =
         IF recognizer = "exited" THEN signatures_to_recognizer
         ELSE Append(signatures_to_recognizer, pending[1])
    /\ last_pushed' = pending[1]
    /\ pending' = None
    /\ IF processor = "flush"
       THEN /\ processor' = "exited"
            /\ signatures_closed' = TRUE
            /\ finals' = finals + 1
       ELSE /\ processor' = "recv"
            /\ signatures_closed' = signatures_closed
            /\ finals' = finals
    /\ UNCHANGED <<mainVars, params, captureVars, fed, recognizerVars, clockVars, sink>>

\* The Recognizer blocks on its channel; a closed and empty channel ends it.
Receive ==
    /\ recognizer = "waiting"
    /\ IF signatures_to_recognizer # <<>>
       THEN /\ cur' = Some(Head(signatures_to_recognizer))
            /\ signatures_to_recognizer' = Tail(signatures_to_recognizer)
            /\ recognizer' = "coalescing"
       ELSE /\ signatures_closed
            /\ cur' = None
            /\ signatures_to_recognizer' = signatures_to_recognizer
            /\ recognizer' = "exited"
    /\ UNCHANGED <<mainVars, params, captureVars, fed, pending, last_pushed, finals,
                   processor, signatures_closed, discarded, req, n_requests, backoff,
                   clockVars, sink>>

\* Mutation: the Recognizer keeps the signature it holds and throws the
\* newer one away.
CoalesceKeepOldest ==
    /\ recognizer = "coalescing"
    /\ signatures_to_recognizer # <<>>
    /\ discarded' = discarded \cup {Head(signatures_to_recognizer)}
    /\ signatures_to_recognizer' = Tail(signatures_to_recognizer)
    /\ UNCHANGED <<mainVars, params, captureVars, fed, pending, last_pushed, finals,
                   processor, signatures_closed, recognizer, cur, req, n_requests,
                   backoff, clockVars, sink>>

\* More is queued: the held signature is stale, skip to the next one.
Coalesce ==
    /\ recognizer = "coalescing"
    /\ signatures_to_recognizer # <<>>
    /\ discarded' = discarded \cup {cur[1]}
    /\ cur' = Some(Head(signatures_to_recognizer))
    /\ signatures_to_recognizer' = Tail(signatures_to_recognizer)
    /\ UNCHANGED <<mainVars, params, captureVars, fed, pending, last_pushed, finals,
                   processor, signatures_closed, recognizer, req, n_requests, backoff,
                   clockVars, sink>>

\* Nothing newer is queued: the recognition client POSTs the held signature.
\* A signature whose fingerprint hash changed resets the backoff.
IssueRequest ==
    /\ recognizer = "coalescing"
    /\ signatures_to_recognizer = <<>>
    /\ req' = Some([sig |-> cur[1], newest |-> last_pushed, gap |-> since_match])
    /\ n_requests' = n_requests + 1
    /\ recognizer' = "requesting"
    /\ \E changed \in BOOLEAN :
         backoff' = IF changed THEN BackoffStart ELSE backoff
    /\ UNCHANGED <<mainVars, params, captureVars, processorVars, cur, discarded,
                   clockVars, sink>>

\* Mutation: a match is followed by the no-match delay, not by the cooldown.
SuppressForBackoffOnly(outcome, delay) == delay

\* How long the Recognizer is suppressed after an outcome: the cooldown after
\* a match, the backoff delay after a no-match or a retryable failure, nothing
\* after a failure that is fatal to the request only.
SuppressFor(outcome, delay) ==
    CASE outcome = "Match" -> Cooldown
      [] outcome = "Fatal" -> 0
      [] OTHER -> delay

\* What the Recognizer does after its request returned.
AfterRequest(once) == IF once THEN "exited" ELSE "sleeping"

\* The reply (or the 15 s timeout) arrives: Match, NoMatch, a retryable
\* failure or a fatal one.
Respond ==
    /\ recognizer = "requesting"
    /\ \E outcome \in {"Match", "NoMatch", "Retryable", "Fatal"} :
         /\ sink' = Some(CASE outcome = "Match" -> "SongRecognized"
                              [] outcome = "NoMatch" -> "NoMatch"
                              [] OTHER -> "Error")
         /\ since_match' = IF outcome = "Match" THEN 0 ELSE since_match
         /\ recognizer' = AfterRequest(RecognizeOnce)
         /\ sleep_left' = IF RecognizeOnce THEN 0 ELSE SuppressFor(outcome, backoff)
         /\ backoff' = CASE outcome = "Match" -> BackoffStart
                         [] outcome = "Fatal" -> backoff
                         [] OTHER -> Min(2 * backoff, BackoffCap)
    /\ req' = None
    /\ cur' = None
    /\ UNCHANGED <<mainVars, params, captureVars, processorVars, discarded, n_requests>>

\* The suppression is over.
Wake ==
    /\ recognizer = "sleeping"
    /\ sleep_left = 0
    /\ recognizer' = "waiting"
    /\ UNCHANGED <<mainVars, params, captureVars, processorVars, cur, discarded, req,
                   n_requests, backoff, clockVars, sink>>

\* One second passes.
Tick ==
    /\ sleep_left > 0 \/ since_match < Cooldown
    /\ sleep_left' = Max(sleep_left - 1, 0)
    /\ since_match' = Min(since_match + 1, Cooldown)
    /\ UNCHANGED <<mainVars, params, captureVars, processorVars, recognizerVars, sink>>

CaptureNext == CaptureChunk \/ CaptureExit
ProcessorNext == ProcessChunk \/ Finalize \/ PushSignature
RecognizerNext == Receive \/ Coalesce \/ IssueRequest \/ Respond \/ Wake

PipelineNext == CloseSource \/ CaptureNext \/ ProcessorNext \/ RecognizerNext \/ Tick

PipelineSpec == PipelineInit /\ [][PipelineNext]_vars

\* Each worker is its own OS thread and the clock runs: every one of them
\* keeps being scheduled.
PipelineFairSpec ==
    /\ PipelineSpec
    /\ WF_vars(CaptureNext)
    /\ WF_vars(ProcessorNext)
    /\ WF_vars(RecognizerNext)
    /\ WF_vars(Tick)

(* ================================================================== *)
(* Properties                                                          *)
(* ================================================================== *)
CliCalls == {i \in 1..Len(calls) : calls[i].fn = "cli_main"}

\* main went through the arm it dispatched to (it was not stopped by clap).
PastDispatch ==
    \/ pc = "return_ok"
    \/ pc = "done" /\ result.tag \in {"Ok", "Err"}

\* The collaborators each arm calls, in the order the CLI surface promises.
StepsOf(armId) ==
    CASE armId = "audio-file-to-recognized-song" ->
           <<"make_signature_from_file", "recognize_song_from_signature", "to_string_pretty">>
      [] armId = "fingerprint-to-recognized-song" ->
           <<"decode_from_uri", "recognize_song_from_signature", "to_string_pretty">>
      [] armId = "audio-file-to-fingerprint" ->
           <<"make_signature_from_file", "encode_to_uri">>
      [] armId \in CliArms -> <<"cli_main">>
      [] OTHER -> <<"gui_main">>

(* C1: `listen` starts cli_main in continuous mode without an input file,  *)
(* `microphone-to-recognized-song` starts it in single-shot mode without   *)
(* an input file, `recognize` starts it in single-shot mode with the input *)
(* file present exactly when the file argument was given; in all three     *)
(* audio_device is the value of -d/--audio-device, absent when not given.  *)
C1_DispatchSelectsMode ==
    \A s \in {"listen", "recognize", "microphone-to-recognized-song"} :
        (args.sub = Some(s) /\ PastDispatch) =>
            /\ Len(calls) = 1
            /\ calls[1].fn = "cli_main"
            /\ calls[1].arg.recognize_once = (s # "listen")
            /\ calls[1].arg.input_file = (IF s = "recognize" THEN args.input_file ELSE None)
            /\ calls[1].arg.audio_device = args.dev

\* `recognize -d dev file` reached cli_main with both values.
C1_Witness ==
    /\ args.sub = Some("recognize")
    /\ IsSome(args.input_file)
    /\ IsSome(args.dev)
    /\ CliCalls = {1}
    /\ calls[1].arg.input_file = args.input_file
    /\ calls[1].arg.audio_device = args.dev

(* C2: main returns Ok(()) only if every step of the dispatched arm        *)
(* returned without error; an error returned by a step is what main        *)
(* returns, at once, and is never turned into a successful exit.           *)
C2_ErrorsPropagate ==
    /\ result.tag = "Ok" =>
         /\ IsSome(arm)
         /\ Len(calls) = Len(StepsOf(arm[1]))
         /\ \A i \in 1..Len(calls) :
              calls[i].fn = StepsOf(arm[1])[i] /\ calls[i].ret = None
    /\ \A i \in 1..Len(calls) :
         IsSome(calls[i].ret) =>
            /\ pc = "done"
            /\ result = ExitErr(calls[i].fn, calls[i].ret[1])

\* The second step of an arm failed and main returned that error.
C2_Witness ==
    /\ Len(calls) = 2
    /\ calls[1].ret = None
    /\ IsSome(calls[2].ret)
    /\ result.tag = "Err"

RecognizingArms == {"audio-file-to-recognized-song", "fingerprint-to-recognized-song"}

(* C3: in audio-file-to-recognized-song and fingerprint-to-recognized-song *)
(* the steps run in the order signature -> recognition request -> pretty   *)
(* JSON -> print, and a failure stops everything after it: no request and  *)
(* no output after a failed signature, no output after a failed request;   *)
(* on success exactly one request was issued and exactly one document was  *)
(* printed.                                                                *)
C3_RecognizeChainOrder ==
    (IsSome(arm) /\ arm[1] \in RecognizingArms) =>
        /\ Len(calls) <= 3
        /\ \A i \in 1..Len(calls) : calls[i].fn = StepsOf(arm[1])[i]
        /\ \A i \in 1..(Len(calls) - 1) : calls[i].ret = None
        /\ Len(stdout) <= 1
        /\ stdout # <<>> => Len(calls) = 3 /\ calls[3].ret = None
        /\ result.tag = "Ok" =>
             /\ Cardinality({i \in 1..Len(calls) :
                               calls[i].fn = "recognize_song_from_signature"}) = 1
             /\ Len(stdout) = 1
             /\ stdout[1].ops = StepsOf(arm[1])

\* A corrupt fingerprint: decoding failed, nothing was requested or printed.
C3_Witness ==
    /\ arm = Some("fingerprint-to-recognized-song")
    /\ Len(calls) = 1
    /\ calls[1].ret = Some("CorruptSignature")
    /\ pc = "done"
    /\ stdout = <<>>

(* C4: audio-file-to-fingerprint never issues a recognition request; on    *)
(* success it prints exactly one line, encode_to_uri of the signature      *)
(* generated from the input file; if generating or encoding fails nothing  *)
(* is printed.                                                             *)
C4_FingerprintOnly ==
    arm = Some("audio-file-to-fingerprint") =>
        /\ \A i \in 1..Len(calls) : calls[i].fn # "recognize_song_from_signature"
        /\ Len(stdout) <= 1
        /\ (\E i \in 1..Len(calls) : IsSome(calls[i].ret)) => stdout = <<>>
        /\ result.tag = "Ok" =>
             stdout = << Apply("encode_to_uri",
                           Apply("make_signature_from_file",
                             Term("input_file", args.input_file[1]))) >>

\* The fingerprint of a file was printed and main returned Ok(()).
C4_Witness ==
    /\ arm = Some("audio-file-to-fingerprint")
    /\ result.tag = "Ok"
    /\ Len(stdout) = 1

(* C9: for listen and recognize the output_type handed to cli_main is JSON *)
(* exactly when --json is present, CSV exactly when --csv is present and   *)
(* --json is not, SongName exactly when neither is; a command line with    *)
(* both is rejected by the parser and cli_main is never started for it;    *)
(* microphone-to-recognized-song always passes JSON.                       *)
C9_OutputType ==
    /\ \A i \in CliCalls :
         /\ args.sub \in {Some("listen"), Some("recognize")} =>
              /\ calls[i].arg.output_type = "JSON" <=> args.json
              /\ calls[i].arg.output_type = "CSV" <=> (args.csv /\ ~args.json)
              /\ calls[i].arg.output_type = "SongName" <=> (~args.csv /\ ~args.json)
         /\ args.sub = Some("microphone-to-recognized-song") =>
              calls[i].arg.output_type = "JSON"
    /\ (args.json /\ args.csv) =>
         /\ CliCalls = {}
         /\ pc \in {"start", "done"}
         /\ pc = "done" => result = ClapExit

\* `listen --csv` reached cli_main with the CSV output type.
C9_Witness ==
    /\ args.sub = Some("listen")
    /\ args.csv
    /\ CliCalls = {1}
    /\ calls[1].arg.output_type = "CSV"

\* The explicit arms of this build that cover the subcommand name.
ExplicitArmsFor(g, name) ==
    {i \in 1..(Len(ArmTable) - 1) : ArmMatches(g, i, name)}

(* C10: the `_ => unreachable!()` arm is never executed: in both builds    *)
(* every subcommand name the parser accepts, and the absence of one, is    *)
(* handled by an explicit arm, and each run dispatches exactly one action. *)
C10_WildcardUnreachable ==
    /\ result # Panicked("unreachable!")
    /\ arm # Some("_")
    /\ (pc # "start" /\ result.tag \notin {"ClapExit", "ClapHelp"}) =>
          Cardinality(ExplicitArmsFor(gui, subcommand_name(args))) = 1
    /\ IsSome(arm) =>
          /\ \E i \in ExplicitArmsFor(gui, subcommand_name(args)) : ArmTable[i].id = arm[1]
          /\ Cardinality({i \in 1..Len(calls) : calls[i].fn \in {"cli_main", "gui_main"}}) <= 1

\* The bare command in a build without the gui feature took the `None` arm.
C10_Witness ==
    /\ ~gui
    /\ subcommand_name(args) = None
    /\ arm = Some("None")
    /\ CliCalls = {1}

(* ------------------------------------------------------------------ *)
(* Properties of the pipeline                                          *)
(* ------------------------------------------------------------------ *)
SingleShotCommand ==
    subcommand_name(args) \in {Some("recognize"), Some("microphone-to-recognized-song")}

AllExited == capture = "exited" /\ processor = "exited" /\ recognizer = "exited"

C6_Cooldown ==
    (~RecognizeOnce /\ IsSome(req)) => req[1].gap >= Cooldown

\* A match was emitted, signatures queued up during the cooldown, and the
\* next request is in flight.
C6_Witness ==
    /\ ~RecognizeOnce
    /\ sink = Some("SongRecognized")
    /\ n_requests >= 2
    /\ IsSome(req)
    /\ discarded # {}

(* C7: whenever the Recognizer picks among several queued signatures it    *)
(* takes the newest and discards only older ones; the most recently pushed *)
(* signature is never among the discarded.                                 *)
C7_Coalescing ==
    /\ \A d \in discarded : d < last_pushed
    /\ IsSome(cur) => \A d \in discarded : d < cur[1]
    /\ IsSome(req) => req[1].sig = req[1].newest

\* Two stale signatures were skipped and the newest one is being sent.
C7_Witness ==
    /\ Cardinality(discarded) >= 2
    /\ IsSome(req)
    /\ req[1].sig = last_pushed

ProcessorExitedCleanly ==
    processor = "exited" =>
        /\ signatures_closed
        /\ samples_closed
        /\ samples_to_processor = <<>>
        /\ finals = (IF FinalizeFails(fed) THEN 0 ELSE 1)

====
